---- MODULE Spec2Model ----
(***************************************************************************)
(* CloudReader (src/storage/mvcc/reader/cloud_reader.rs): the read-side    *)
(* MVCC resolver over one immutable kvengine snapshot.  The snapshot holds *)
(* three column families (write, lock, extra); every operation of the      *)
(* reader is one action that records the call and its result.              *)
(***************************************************************************)
EXTENDS Integers, Sequences, FiniteSets, TLC

VARIABLES snapshot,    \* CloudReader.snapshot: [write, lock, extra], sets of entries
          statistics,  \* CloudReader.statistics (never touched by any operation)
          call,        \* the last operation called, with its arguments
          ret,         \* what that call returned: Ok(v), Err(e) or Panic
          probe,       \* observer: the (key, start_ts) whose resolution is watched
          first        \* observer: outcome of the first get_txn_commit_record(probe),
                       \* and whether that call was repeated

vars == <<snapshot, statistics, call, ret, probe, first>>

(***************************************************************************)
(* Bounds of the model.                                                    *)
(***************************************************************************)
MaxTs == 3          \* timestamps range over 0 .. MaxTs
MaxLimit == 2       \* scan_locks limits range over 0 .. MaxLimit

(***************************************************************************)
(* Option, Result.                                                         *)
(***************************************************************************)
None == <<>>
Some(x) == <<x>>

Ok(v) == [tag |-> "Ok", val |-> v]
Err(e) == [tag |-> "Err", val |-> e]
Panic == [tag |-> "Panic", val |-> "panic"]

(***************************************************************************)
(* Byte strings and their order (Vec<u8> / &[u8] comparison).              *)
(***************************************************************************)
RECURSIVE LexLess(_, _)
LexLess(a, b) ==
    IF b = <<>> THEN FALSE
    ELSE IF a = <<>> THEN TRUE
    ELSE IF a[1] # b[1] THEN a[1] < b[1]
    ELSE LexLess(Tail(a), Tail(b))

LexLeq(a, b) == a = b \/ LexLess(a, b)

(***************************************************************************)
(* Key <-> raw bytes: the memcomparable byte codec behind Key::from_raw    *)
(* and Key::to_raw (groups of ENC_GROUP_SIZE bytes, zero padded, followed  *)
(* by a marker byte ENC_MARKER - padding).                                 *)
(***************************************************************************)
ENC_GROUP_SIZE == 8
ENC_MARKER == 255

Zeros(n) == [i \in 1..n |-> 0]

RECURSIVE encode_bytes(_)
encode_bytes(raw) ==
    IF Len(raw) >= ENC_GROUP_SIZE
    THEN SubSeq(raw, 1, ENC_GROUP_SIZE) \o <<ENC_MARKER>>
         \o encode_bytes(SubSeq(raw, ENC_GROUP_SIZE + 1, Len(raw)))
    ELSE raw \o Zeros(ENC_GROUP_SIZE - Len(raw))
         \o <<ENC_MARKER - (ENC_GROUP_SIZE - Len(raw))>>

RECURSIVE decode_bytes(_)
decode_bytes(enc) ==
    IF Len(enc) < ENC_GROUP_SIZE + 1 THEN Err("KeyEncoding")
    ELSE LET marker == enc[ENC_GROUP_SIZE + 1]
             pad == ENC_MARKER - marker
             real == ENC_GROUP_SIZE - pad
         IN IF pad > ENC_GROUP_SIZE THEN Err("KeyEncoding")
            ELSE IF pad = 0
            THEN LET rest == decode_bytes(SubSeq(enc, ENC_GROUP_SIZE + 2, Len(enc)))
                 IN IF rest.tag = "Err" THEN rest
                    ELSE Ok(SubSeq(enc, 1, ENC_GROUP_SIZE) \o rest.val)
            ELSE IF \E i \in (real + 1)..ENC_GROUP_SIZE : enc[i] # 0
            THEN Err("KeyEncoding")
            ELSE Ok(SubSeq(enc, 1, real))

KeyFromRaw(raw) == encode_bytes(raw)
KeyToRaw(key) == decode_bytes(key)

(***************************************************************************)
(* The values the model draws from.                                        *)
(***************************************************************************)
RawKeys == {<<1>>, <<1, 1>>, <<2>>}
WriteKeys == {<<1>>, <<1, 1>>}       \* the raw keys that transactions wrote to
TxnStartTs == {1, 2}                 \* the start_ts of those transactions
MalformedKeys == {<<1, 0, 0, 0, 0, 0, 0, 9, 248>>}   \* non-zero padding
Keys == {KeyFromRaw(r) : r \in RawKeys} \cup MalformedKeys
Timestamps == 0..MaxTs
Values == {<<>>, <<7>>}

(***************************************************************************)
(* kvengine items.  An item exposes its value bytes and its user-meta      *)
(* blob; the blob of a write-family version is <<start_ts, commit_ts>>.    *)
(***************************************************************************)
Item(val, meta) == [val |-> val, meta |-> meta]
EmptyItem == Item(<<>>, <<>>)
value_len(item) == Len(item.val)
user_meta_len(item) == Len(item.meta)
UserMetaFromSlice(buf) == [start_ts |-> buf[1], commit_ts |-> buf[2]]

Entry(key, ver, item) == [key |-> key, ver |-> ver, item |-> item]

\* SnapAccess::get(cf, key, version): the newest version of key that is not
\* newer than `version` (0: no ceiling); an empty item when there is none.
SnapGet(cf, raw_key, version) ==
    LET cands == {e \in cf : e.key = raw_key /\ (version = 0 \/ e.ver <= version)}
    IN IF cands = {} THEN EmptyItem
       ELSE (CHOOSE e \in cands : \A o \in cands : o.ver <= e.ver).item

\* Iterator order: keys ascending, the versions of one key newest first.
EntryBefore(a, b) ==
    LexLess(a.key, b.key) \/ (a.key = b.key /\ a.ver > b.ver)

RECURSIVE SortEntries(_)
SortEntries(S) ==
    IF S = {} THEN <<>>
    ELSE LET m == CHOOSE e \in S : \A o \in S \ {e} : EntryBefore(e, o)
         IN <<m>> \o SortEntries(S \ {m})

\* SnapAccess::new_iterator(cf, reverse, include_item_metadata): every
\* retained entry of the family in iterator order; the items carry their
\* user-meta blob only when it was asked for.
NewIterator(cf, reverse, include_item_metadata) ==
    LET shown == IF include_item_metadata THEN cf
                 ELSE {Entry(e.key, e.ver, Item(e.item.val, <<>>)) : e \in cf}
    IN SortEntries(shown)

\* Iterator::seek(key): the position of the first entry whose key is >= key.
Seek(it, raw_key) ==
    LET ge == {i \in 1..Len(it) : LexLeq(raw_key, it[i].key)}
    IN IF ge = {} THEN Len(it) + 1 ELSE CHOOSE i \in ge : \A j \in ge : i <= j

\* rfstore::mvcc::encode_extra_txn_status_key(key, start_ts)
encode_extra_txn_status_key(raw_key, start_ts) == raw_key \o <<0, start_ts>>

(***************************************************************************)
(* txn_types: Write, Lock.                                                 *)
(***************************************************************************)
WriteNew(write_type, start_ts, short_value) ==
    [write_type |-> write_type, start_ts |-> start_ts, short_value |-> short_value]

SingleRecord(commit_ts, write) ==
    [type |-> "SingleRecord", commit_ts |-> commit_ts, write |-> write]
NoRecord == [type |-> "None", overlapped_write |-> None]

\* Lock bytes: <<LOCK_TAG, ts>> parses to a lock, anything else is malformed.
LOCK_TAG == 80
LockParse(bytes) ==
    IF Len(bytes) = 2 /\ bytes[1] = LOCK_TAG THEN Ok([ts |-> bytes[2]])
    ELSE Err("BadLock")

(***************************************************************************)
(* CloudReader.                                                            *)
(***************************************************************************)
get_commit_by_item(item, start_ts) ==
    LET user_meta == UserMetaFromSlice(item.meta)
    IN IF user_meta.start_ts = start_ts
       THEN LET write_type == IF value_len(item) > 0 THEN "Put" ELSE "Delete"
                short_value == IF value_len(item) > 0 THEN Some(item.val) ELSE None
            IN Some(SingleRecord(user_meta.commit_ts,
                                 WriteNew(write_type, user_meta.start_ts, short_value)))
       ELSE None

\* The while loop of get_txn_commit_record over the retained versions.
RECURSIVE scan_versions(_, _, _, _)
scan_versions(data_iter, i, raw_key, start_ts) ==
    IF i > Len(data_iter) THEN None
    ELSE IF data_iter[i].key # raw_key THEN None
    ELSE LET record == get_commit_by_item(data_iter[i].item, start_ts)
         IN IF record # None THEN record
            ELSE scan_versions(data_iter, i + 1, raw_key, start_ts)

\* Mutant: the fast path alone, without the scan of the retained versions.
commit_record_fast_only(snap, raw_key, start_ts) ==
    LET item == SnapGet(snap.write, raw_key, 0)
    IN IF user_meta_len(item) > 0 THEN get_commit_by_item(item, start_ts) ELSE None

\* get_txn_commit_record, the write family: the fast path on the latest
\* version, then the scan of every retained version of raw_key.
commit_record_in_write(snap, raw_key, start_ts) ==
    LET item == SnapGet(snap.write, raw_key, 0)
        fast == IF user_meta_len(item) > 0
                THEN get_commit_by_item(item, start_ts) ELSE None
        data_iter == NewIterator(snap.write, FALSE, TRUE)
    IN IF fast # None THEN fast
       ELSE scan_versions(data_iter, Seek(data_iter, raw_key), raw_key, start_ts)

\* Mutant: the commit_ts test of the status record inverted.
commit_record_in_extra_swapped(snap, raw_key, start_ts) ==
    LET rollback_key == encode_extra_txn_status_key(raw_key, start_ts)
        item == SnapGet(snap.extra, rollback_key, 0)
        user_meta == UserMetaFromSlice(item.meta)
    IN IF value_len(item) = 0 THEN NoRecord
       ELSE IF user_meta.commit_ts # 0
       THEN SingleRecord(user_meta.commit_ts, WriteNew("Rollback", start_ts, None))
       ELSE SingleRecord(user_meta.commit_ts, WriteNew("Lock", start_ts, None))

\* get_txn_commit_record, the extra family: the transaction-status record.
commit_record_in_extra(snap, raw_key, start_ts) ==
    LET rollback_key == encode_extra_txn_status_key(raw_key, start_ts)
        item == SnapGet(snap.extra, rollback_key, 0)
        user_meta == UserMetaFromSlice(item.meta)
    IN IF value_len(item) = 0 THEN NoRecord
       ELSE IF user_meta.commit_ts = 0
       THEN SingleRecord(user_meta.commit_ts, WriteNew("Rollback", start_ts, None))
       ELSE SingleRecord(user_meta.commit_ts, WriteNew("Lock", start_ts, None))

get_txn_commit_record(snap, key, start_ts) ==
    LET raw == KeyToRaw(key)
    IN IF raw.tag = "Err" THEN raw
       ELSE LET record == commit_record_in_write(snap, raw.val, start_ts)
            IN IF record # None THEN Ok(record[1])
               ELSE Ok(commit_record_in_extra(snap, raw.val, start_ts))

load_lock(snap, key) ==
    LET raw == KeyToRaw(key)
    IN IF raw.tag = "Err" THEN Panic
       ELSE LET item == SnapGet(snap.lock, raw.val, 0)
            IN IF value_len(item) = 0 THEN Ok(None)
               ELSE LET lock == LockParse(item.val)
                    IN IF lock.tag = "Err" THEN lock ELSE Ok(Some(lock.val))

\* Mutant: the lookup without the timestamp ceiling.
get_latest(snap, key, ts) ==
    LET raw == KeyToRaw(key)
    IN IF raw.tag = "Err" THEN raw
       ELSE LET item == SnapGet(snap.write, raw.val, 0)
            IN IF value_len(item) > 0 THEN Ok(Some(item.val)) ELSE Ok(None)

get(snap, key, ts) ==
    LET raw == KeyToRaw(key)
    IN IF raw.tag = "Err" THEN raw
       ELSE LET item == SnapGet(snap.write, raw.val, ts)
            IN IF value_len(item) > 0 THEN Ok(Some(item.val)) ELSE Ok(None)

\* Mutant: every item with version metadata taken for a Put.
seek_write_always_put(snap, key, ts) ==
    LET raw == KeyToRaw(key)
    IN IF raw.tag = "Err" THEN raw
       ELSE LET item == SnapGet(snap.write, raw.val, ts)
            IN IF user_meta_len(item) > 0
               THEN LET user_meta == UserMetaFromSlice(item.meta)
                        short_value == IF Len(item.val) = 0 THEN None
                                       ELSE Some(item.val)
                    IN Ok(Some(<<user_meta.commit_ts,
                                 WriteNew("Put", user_meta.start_ts, short_value)>>))
               ELSE Ok(None)

seek_write(snap, key, ts) ==
    LET raw == KeyToRaw(key)
    IN IF raw.tag = "Err" THEN raw
       ELSE LET item == SnapGet(snap.write, raw.val, ts)
            IN IF user_meta_len(item) > 0
               THEN LET user_meta == UserMetaFromSlice(item.meta)
                        write_type == IF Len(item.val) = 0 THEN "Delete" ELSE "Put"
                        short_value == IF Len(item.val) = 0 THEN None
                                       ELSE Some(item.val)
                    IN Ok(Some(<<user_meta.commit_ts,
                                 WriteNew(write_type, user_meta.start_ts, short_value)>>))
               ELSE Ok(None)

get_write(snap, key, ts) ==
    LET r == seek_write(snap, key, ts)
    IN IF r.tag # "Ok" THEN r
       ELSE IF r.val = None THEN Ok(None) ELSE Ok(Some(r.val[1][2]))

OldValueNone == [type |-> "None", value |-> <<>>]
OldValueValue(v) == [type |-> "Value", value |-> v]

\* Mutant: no assertion on the kind, no unwrap of the value.
get_old_value_lenient(prev_write) ==
    IF prev_write # None
    THEN LET write == prev_write[1]
         IN IF write.write_type = "Put" /\ write.short_value # None
            THEN Ok(OldValueValue(write.short_value[1]))
            ELSE Ok(OldValueNone)
    ELSE Ok(OldValueNone)

get_old_value(prev_write) ==
    IF prev_write # None
    THEN LET write == prev_write[1]
         IN IF write.write_type = "Delete" THEN Ok(OldValueNone)
            ELSE IF write.write_type # "Put" THEN Panic
            ELSE IF write.short_value = None THEN Panic
            ELSE Ok(OldValueValue(write.short_value[1]))
    ELSE Ok(OldValueNone)

\* The caller's filter: |lock| lock.ts <= max_ts.
Filter(max_ts, lock) == lock.ts <= max_ts

\* Mutant: the limit test off by one.
limit_reached_late(locks, limit) == limit > 0 /\ Len(locks) = limit + 1

\* locks.len() == limit, checked after each push.
limit_reached(locks, limit) == limit > 0 /\ Len(locks) = limit

\* The while loop of scan_locks.
RECURSIVE scan_locks_loop(_, _, _, _, _, _)
scan_locks_loop(lock_iter, i, end, filter, limit, locks) ==
    IF i > Len(lock_iter) THEN Ok(<<locks, FALSE>>)
    ELSE LET key == KeyFromRaw(lock_iter[i].key)
         IN IF end # None /\ ~LexLess(key, end[1]) THEN Ok(<<locks, FALSE>>)
            ELSE LET lock == LockParse(lock_iter[i].item.val)
                 IN IF lock.tag = "Err" THEN lock
                    ELSE IF Filter(filter, lock.val)
                    THEN LET pushed == Append(locks, <<key, lock.val>>)
                         IN IF limit_reached(pushed, limit)
                            THEN Ok(<<pushed, TRUE>>)
                            ELSE scan_locks_loop(lock_iter, i + 1, end, filter,
                                                 limit, pushed)
                    ELSE scan_locks_loop(lock_iter, i + 1, end, filter, limit, locks)

\* Mutant: the iterator always rewound, the start key only decoded.
scan_locks_rewind(snap, start, end, filter, limit) ==
    LET lock_iter == NewIterator(snap.lock, FALSE, FALSE)
        raw_start == IF start # None THEN KeyToRaw(start[1]) ELSE Ok(<<>>)
    IN IF raw_start.tag = "Err" THEN raw_start
       ELSE scan_locks_loop(lock_iter, 1, end, filter, limit, <<>>)

scan_locks(snap, start, end, filter, limit) ==
    LET lock_iter == NewIterator(snap.lock, FALSE, FALSE)
        raw_start == IF start # None THEN KeyToRaw(start[1]) ELSE Ok(<<>>)
    IN IF raw_start.tag = "Err" THEN raw_start
       ELSE LET pos == IF start # None THEN Seek(lock_iter, raw_start.val) ELSE 1
            IN scan_locks_loop(lock_iter, pos, end, filter, limit, <<>>)

(***************************************************************************)
(* Snapshots the reader can be constructed over.                           *)
(***************************************************************************)
Snap(w, l, x) == [write |-> w, lock |-> l, extra |-> x]

\* A committed version of start_ts s: written at a later commit_ts, which is
\* also the engine version of the item.
VersionsOf(s) ==
    {Entry(k, c, Item(v, <<s, c>>)) : k \in WriteKeys, c \in (s + 1)..MaxTs, v \in Values}

AllVersions == UNION {VersionsOf(s) : s \in TxnStartTs}

\* Every transaction (start_ts) committed at most one version; the engine
\* keeps at most one item per (key, version).
WriteFamilies ==
    LET fates == {f \in [TxnStartTs -> {None} \cup {Some(e) : e \in AllVersions}] :
                    \A s \in TxnStartTs : f[s] = None \/ f[s][1] \in VersionsOf(s)}
        family(f) == {f[s][1] : s \in {t \in TxnStartTs : f[t] # None}}
    IN {family(f) : f \in {g \in fates :
            \A s, t \in TxnStartTs :
                (s # t /\ g[s] # None /\ g[t] # None)
                    => ~(g[s][1].key = g[t][1].key /\ g[s][1].ver = g[t][1].ver)}}

\* A transaction-status record: commit_ts 0 for a rollback, the commit_ts of
\* the transaction otherwise; its value bytes are never empty.
ExtraRecords ==
    {Entry(encode_extra_txn_status_key(k, s), s, Item(<<0>>, <<s, c>>)) :
        k \in WriteKeys, s \in TxnStartTs, c \in {0, MaxTs}}

ExtraFamilies ==
    {{}} \cup {{e} : e \in ExtraRecords}

LockBytes == {<<0>>, <<LOCK_TAG, 1>>, <<LOCK_TAG, 2>>}
FilterArgs == {1, 2}

LockFamilies ==
    {{Entry(k, 1, Item(f[k][1], <<>>)) : k \in {r \in RawKeys : f[r] # None}} :
        f \in [RawKeys -> {None} \cup {Some(b) : b \in LockBytes}]}

\* Write-family items as the engine interface allows them: value bytes with
\* or without a user-meta blob.
ItemFamilies ==
    LET items(c) == {Item(v, m) : v \in Values,
                        m \in {<<>>} \cup {<<s, c>> : s \in 0..(c - 1)}}
    IN {{Entry(<<1>>, c, f[c][1]) : c \in {d \in 1..MaxTs : f[d] # None}} :
          f \in {g \in [1..MaxTs -> {None} \cup {Some(i) : i \in UNION {items(c) : c \in 1..MaxTs}}] :
                    \A c \in 1..MaxTs : g[c] = None \/ g[c][1] \in items(c)}}

AtMostOne(F) == {f \in F : Cardinality(f) <= 1}

SmallSnapshots ==
    {Snap(w, {}, {}) : w \in AtMostOne(WriteFamilies)}
    \cup {Snap({}, l, {}) : l \in AtMostOne(LockFamilies)}
    \cup {Snap({}, {}, x) : x \in ExtraFamilies}

Probes == {<<KeyFromRaw(<<1>>), 1>>}

(***************************************************************************)
(* CloudReader::new, over each family of snapshots.                        *)
(***************************************************************************)
New(snaps, probes) ==
    /\ snapshot \in snaps
    /\ statistics = 0
    /\ call = [op |-> "new"]
    /\ ret = Ok(None)
    /\ probe \in probes
    /\ first = None

Init == New(SmallSnapshots, {Some(p) : p \in Probes})
InitWrite == New({Snap(w, {}, x) : w \in WriteFamilies, x \in ExtraFamilies}, {None})
InitLock == New({Snap({}, l, {}) : l \in LockFamilies}, {None})
InitItem == New({Snap(w, {}, {}) : w \in ItemFamilies}, {None})

(***************************************************************************)
(* One action per operation of the reader.                                 *)
(***************************************************************************)
\* Mutant: a resolution that consumes the status record it read.
GetTxnCommitRecordConsuming ==
    \E key \in Keys, start_ts \in Timestamps :
        /\ call' = [op |-> "get_txn_commit_record", key |-> key, ts |-> start_ts]
        /\ ret' = get_txn_commit_record(snapshot, key, start_ts)
        /\ first' = IF probe # Some(<<key, start_ts>>) THEN first
                    ELSE IF first = None THEN Some([out |-> ret', repeated |-> FALSE])
                    ELSE Some([out |-> first[1].out, repeated |-> TRUE])
        /\ snapshot' = IF ret'.tag = "Ok" /\ ret'.val.type = "SingleRecord"
                          /\ ret'.val.write.write_type \in {"Lock", "Rollback"}
                       THEN [snapshot EXCEPT !.extra = {}] ELSE snapshot
        /\ UNCHANGED <<statistics, probe>>

GetTxnCommitRecord ==
    \E key \in Keys, start_ts \in Timestamps :
        /\ call' = [op |-> "get_txn_commit_record", key |-> key, ts |-> start_ts]
        /\ ret' = get_txn_commit_record(snapshot, key, start_ts)
        /\ first' = IF probe # Some(<<key, start_ts>>) THEN first
                    ELSE IF first = None THEN Some([out |-> ret', repeated |-> FALSE])
                    ELSE Some([out |-> first[1].out, repeated |-> TRUE])
        /\ UNCHANGED <<snapshot, statistics, probe>>

LoadLock ==
    \E key \in Keys :
        /\ call' = [op |-> "load_lock", key |-> key]
        /\ ret' = load_lock(snapshot, key)
        /\ UNCHANGED <<snapshot, statistics, probe, first>>

Get ==
    \E key \in Keys, ts \in Timestamps :
        /\ call' = [op |-> "get", key |-> key, ts |-> ts]
        /\ ret' = get(snapshot, key, ts)
        /\ UNCHANGED <<snapshot, statistics, probe, first>>

GetWrite ==
    \E key \in Keys, ts \in Timestamps :
        /\ call' = [op |-> "get_write", key |-> key, ts |-> ts]
        /\ ret' = get_write(snapshot, key, ts)
        /\ UNCHANGED <<snapshot, statistics, probe, first>>

SeekWrite ==
    \E key \in Keys, ts \in Timestamps :
        /\ call' = [op |-> "seek_write", key |-> key, ts |-> ts]
        /\ ret' = seek_write(snapshot, key, ts)
        /\ UNCHANGED <<snapshot, statistics, probe, first>>

\* Write records a caller may hand to get_old_value.
PrevWrites ==
    {None} \cup {Some(WriteNew(t, 1, sv)) :
                    t \in {"Put", "Delete", "Lock", "Rollback"},
                    sv \in {None, Some(<<7>>)}}

\* get_old_value on any write record, or on the record that the preceding
\* get_write call returned.
GetOldValue ==
    \/ \E prev_write \in PrevWrites :
        /\ call' = [op |-> "get_old_value", prev_write |-> prev_write, fed |-> FALSE]
        /\ ret' = get_old_value(prev_write)
        /\ UNCHANGED <<snapshot, statistics, probe, first>>
    \/ /\ call.op = "get_write"
       /\ ret.tag = "Ok"
       /\ call' = [op |-> "get_old_value", prev_write |-> ret.val, fed |-> TRUE]
       /\ ret' = get_old_value(ret.val)
       /\ UNCHANGED <<snapshot, statistics, probe, first>>

ScanLocks ==
    \E start \in {None} \cup {Some(k) : k \in Keys},
       end \in {None} \cup {Some(k) : k \in Keys},
       filter \in FilterArgs, limit \in 0..MaxLimit :
        /\ call' = [op |-> "scan_locks", start |-> start, end |-> end,
                    filter |-> filter, limit |-> limit]
        /\ ret' = scan_locks(snapshot, start, end, filter, limit)
        /\ UNCHANGED <<snapshot, statistics, probe, first>>

Next ==
    \/ GetTxnCommitRecord
    \/ LoadLock
    \/ Get
    \/ GetWrite
    \/ SeekWrite
    \/ GetOldValue
    \/ ScanLocks

NextWrite == GetTxnCommitRecord \/ Get \/ GetWrite \/ SeekWrite \/ GetOldValue
NextLock == LoadLock \/ ScanLocks
NextItem == Get \/ GetWrite \/ SeekWrite

Spec == Init /\ [][Next]_vars
SpecWrite == InitWrite /\ [][NextWrite]_vars
SpecLock == InitLock /\ [][NextLock]_vars
SpecItem == InitItem /\ [][NextItem]_vars

(***************************************************************************)
(* What the claims talk about, stated on the snapshot itself.              *)
(***************************************************************************)
IsKey(key) == \E r \in RawKeys : KeyFromRaw(r) = key
RawOf(key) == CHOOSE r \in RawKeys : KeyFromRaw(r) = key

\* The lock entries that a scan_locks call asks for: key in [start, end),
\* lock bytes that decode, decoded lock accepted by the filter.
Matching(c) ==
    {e \in snapshot.lock :
        /\ c.start = None \/ LexLeq(c.start[1], KeyFromRaw(e.key))
        /\ c.end = None \/ LexLess(KeyFromRaw(e.key), c.end[1])
        /\ LockParse(e.item.val).tag = "Ok"
        /\ Filter(c.filter, LockParse(e.item.val).val)}

ScanReturned == call.op = "scan_locks" /\ ret.tag = "Ok"
Locks == ret.val[1]
MoreRemaining == ret.val[2]
ReturnedKeys == {Locks[i][1] : i \in 1..Len(Locks)}

\* A matching lock that the scan did not return.
FurtherMatch == \E e \in Matching(call) : KeyFromRaw(e.key) \notin ReturnedKeys

\* C5: what scan_locks returns is a prefix of the matching locks of
\* [start, end) in ascending key order, each with its decoded lock; with
\* limit = 0 it is all of them and more_remaining is false.
C5_ScanLocksPrefix ==
    ScanReturned =>
        /\ \A i \in 1..Len(Locks) :
              \E e \in Matching(call) :
                  Locks[i] = <<KeyFromRaw(e.key), LockParse(e.item.val).val>>
        /\ \A i, j \in 1..Len(Locks) : i < j => LexLess(Locks[i][1], Locks[j][1])
        /\ \A e \in Matching(call) :
              (\E i \in 1..Len(Locks) : LexLess(KeyFromRaw(e.key), Locks[i][1]))
                  => KeyFromRaw(e.key) \in ReturnedKeys
        /\ call.limit = 0 => (~FurtherMatch /\ MoreRemaining = FALSE)

\* An unlimited scan with both bounds over three locks: it skips the lock
\* before start, returns one lock, and stops at the lock stored at end.
C5_Witness ==
    /\ ScanReturned
    /\ call.limit = 0 /\ call.start # None /\ call.end # None
    /\ Len(Locks) = 1
    /\ Cardinality(snapshot.lock) = 3
    /\ \E e \in snapshot.lock : LexLess(KeyFromRaw(e.key), call.start[1])
    /\ \E e \in snapshot.lock : KeyFromRaw(e.key) = call.end[1]

\* C1 as stated: with limit n > 0 at most n locks come back, and
\* more_remaining is true exactly when n came back and a further matching
\* lock exists in the range.
C1_MoreIffFurther ==
    (ScanReturned /\ call.limit > 0) =>
        /\ Len(Locks) <= call.limit
        /\ MoreRemaining <=> (Len(Locks) = call.limit /\ FurtherMatch)

\* C1 amended: with limit n > 0 at most n locks come back, more_remaining
\* is true exactly when n came back, and a further matching lock in the
\* range implies more_remaining (but not the other way round).
C1_MoreIffLimitHit ==
    (ScanReturned /\ call.limit > 0) =>
        /\ Len(Locks) <= call.limit
        /\ MoreRemaining <=> Len(Locks) = call.limit
        /\ FurtherMatch => MoreRemaining

\* The n-th matching lock is the last one, and more_remaining is true.
C1_Witness ==
    /\ ScanReturned
    /\ call.limit = 2 /\ Len(Locks) = 2
    /\ ~FurtherMatch
    /\ MoreRemaining = TRUE

(***************************************************************************)
(* The write family, as the claims describe it.                            *)
(***************************************************************************)
HasKeyTs == call.op \in {"get", "seek_write", "get_write", "get_txn_commit_record"}
Answered == HasKeyTs /\ IsKey(call.key) /\ ret.tag = "Ok"

\* The retained versions of the called key, by their version metadata.
VersionsOfKey == {e \in snapshot.write : e.key = RawOf(call.key)}
StartTsOf(e) == e.item.meta[1]
CommitTsOf(e) == e.item.meta[2]
Newest(S) == CHOOSE e \in S : \A o \in S : CommitTsOf(o) <= CommitTsOf(e)
ValueOf(e) == IF e.item.val = <<>> THEN None ELSE Some(e.item.val)
WriteOf(e) ==
    WriteNew(IF e.item.val = <<>> THEN "Delete" ELSE "Put", StartTsOf(e), ValueOf(e))

\* C2 as stated: get(k, ts) is the value of the version of k with the
\* greatest commit_ts <= ts (None for a delete or when there is none), for
\* every timestamp ts.
C2_GetVisibleEveryTs ==
    (Answered /\ call.op = "get") =>
        LET visible == {e \in VersionsOfKey : CommitTsOf(e) <= call.ts}
        IN ret.val = IF visible = {} THEN None ELSE ValueOf(Newest(visible))

\* C2 amended: the same for every ts > 0; ts = 0 is the engine's "no
\* ceiling", so get(k, 0) is the value of the newest retained version of k.
C2_GetVisible ==
    (Answered /\ call.op = "get") =>
        LET visible == {e \in VersionsOfKey : call.ts = 0 \/ CommitTsOf(e) <= call.ts}
        IN ret.val = IF visible = {} THEN None ELSE ValueOf(Newest(visible))

\* get at a positive ts returns the value of an older version although a
\* newer version of the key, committed after ts, holds something else.
C2_Witness ==
    /\ Answered /\ call.op = "get" /\ call.ts > 0
    /\ ret.val # None
    /\ \E e \in VersionsOfKey : CommitTsOf(e) > call.ts /\ ValueOf(e) # ret.val

\* C3: whenever a retained version of exactly the called raw key has
\* start_ts equal to the queried one, get_txn_commit_record returns that
\* version's commit_ts with a Put (non-empty value) or Delete record at
\* start_ts, whatever the extra family holds; no Put or Delete record comes
\* back without such a version.
C3_CommitRecordFromWrite ==
    (Answered /\ call.op = "get_txn_commit_record") =>
        LET matches == {e \in VersionsOfKey : StartTsOf(e) = call.ts}
        IN /\ matches # {} =>
                \E e \in matches : ret.val = SingleRecord(CommitTsOf(e), WriteOf(e))
           /\ (ret.val.type = "SingleRecord"
                    /\ ret.val.write.write_type \in {"Put", "Delete"}) => matches # {}

\* An older, superseded version matches while the extra family holds a
\* record for the same (key, start_ts) and another key has versions too.
C3_Witness ==
    /\ Answered /\ call.op = "get_txn_commit_record"
    /\ ret.val.type = "SingleRecord"
    /\ ret.val.write.write_type = "Put"
    /\ StartTsOf(Newest(VersionsOfKey)) # call.ts
    /\ \E x \in snapshot.extra :
          x.key = encode_extra_txn_status_key(RawOf(call.key), call.ts)

\* C4: when no retained version of the called key has the queried
\* start_ts, the extra-family record under the encoding of (key, start_ts)
\* decides: none gives NotFound without overlapping write, commit_ts = 0
\* gives Found(0, Rollback at start_ts), commit_ts = c # 0 gives
\* Found(c, Lock at start_ts), both without a value.
C4_CommitRecordFromExtra ==
    (Answered /\ call.op = "get_txn_commit_record"
        /\ \A e \in VersionsOfKey : StartTsOf(e) # call.ts) =>
        LET recs == {x \in snapshot.extra :
                        x.key = encode_extra_txn_status_key(RawOf(call.key), call.ts)}
        IN /\ recs = {} => ret.val = [type |-> "None", overlapped_write |-> None]
           /\ \A x \in recs :
                ret.val = SingleRecord(CommitTsOf(x),
                            WriteNew(IF CommitTsOf(x) = 0 THEN "Rollback" ELSE "Lock",
                                     call.ts, None))

\* The key has a retained version of another transaction, and the extra
\* family holds the queried transaction's record with a commit_ts.
C4_Witness ==
    /\ Answered /\ call.op = "get_txn_commit_record"
    /\ VersionsOfKey # {}
    /\ ret.val.type = "SingleRecord"
    /\ ret.val.write.write_type = "Lock"
    /\ ret.val.commit_ts = MaxTs

\* Put with a present non-empty value, or Delete without a value.
PutOrDelete(w) ==
    \/ w.write_type = "Put" /\ w.short_value # None /\ w.short_value[1] # <<>>
    \/ w.write_type = "Delete" /\ w.short_value = None

\* C10: seek_write, get_write and the write-family paths of
\* get_txn_commit_record build only Put records with a non-empty value or
\* Delete records without one; Lock and Rollback records come only from
\* the extra family and carry no value; get_old_value on what get_write
\* returned never fails.
C10_WriteKinds ==
    /\ (Answered /\ call.op = "seek_write" /\ ret.val # None)
          => PutOrDelete(ret.val[1][2])
    /\ (Answered /\ call.op = "get_write" /\ ret.val # None)
          => PutOrDelete(ret.val[1])
    /\ (Answered /\ call.op = "get_txn_commit_record" /\ ret.val.type = "SingleRecord")
          => \/ PutOrDelete(ret.val.write)
             \/ /\ ret.val.write.write_type \in {"Lock", "Rollback"}
                /\ ret.val.write.short_value = None
                /\ \A e \in VersionsOfKey : StartTsOf(e) # call.ts
                /\ \E x \in snapshot.extra :
                      x.key = encode_extra_txn_status_key(RawOf(call.key), call.ts)
    /\ (call.op = "get_old_value" /\ call.fed) => ret.tag = "Ok"

\* get_old_value received the Put record of a get_write call.
C10_Witness ==
    /\ call.op = "get_old_value" /\ call.fed
    /\ call.prev_write # None
    /\ call.prev_write[1].write_type = "Put"
    /\ ret = Ok(OldValueValue(<<7>>))

\* C8: get_old_value gives None for no record and for a Delete record,
\* Some(v) for a Put record with value v, and fails fatally for a Lock or
\* Rollback record and for a Put record without a value.
C8_OldValue ==
    call.op = "get_old_value" =>
        LET w == call.prev_write[1]
        IN IF call.prev_write = None THEN ret = Ok([type |-> "None", value |-> <<>>])
           ELSE IF w.write_type = "Delete" THEN ret = Ok([type |-> "None", value |-> <<>>])
           ELSE IF w.write_type = "Put" /\ w.short_value # None
           THEN ret = Ok([type |-> "Value", value |-> w.short_value[1]])
           ELSE ret.tag = "Panic"

\* get_old_value was handed a Lock record and failed.
C8_Witness ==
    /\ call.op = "get_old_value"
    /\ call.prev_write # None
    /\ call.prev_write[1].write_type = "Lock"
    /\ ret.tag = "Panic"

\* C9: no operation changes the snapshot, and get_txn_commit_record on the
\* watched (key, start_ts) returns, after any operations in between, what
\* its first call returned.
C9_Idempotent ==
    /\ [](( call.op = "get_txn_commit_record" /\ first # None
              /\ probe = Some(<<call.key, call.ts>>) ) => ret = first[1].out)
    /\ [][snapshot' = snapshot]_vars

\* A repeated resolution of the watched transaction that found its record.
C9_Witness ==
    /\ call.op = "get_txn_commit_record"
    /\ probe = Some(<<call.key, call.ts>>)
    /\ first # None /\ first[1].repeated
    /\ ret.tag = "Ok" /\ ret.val.type = "SingleRecord"

\* C6 as stated: on one snapshot, get_write is the write record of
\* seek_write, get is Some(v) exactly when seek_write returns a Put of v,
\* and get is None exactly when seek_write is absent or returns a Delete.
C6_ProjectionsAgree ==
    LET sw == seek_write(snapshot, call.key, call.ts)
    IN /\ (Answered /\ call.op = "get_write") =>
            /\ sw.tag = "Ok"
            /\ ret.val = IF sw.val = None THEN None ELSE Some(sw.val[1][2])
       /\ (Answered /\ call.op = "get") =>
            /\ sw.tag = "Ok"
            /\ ret.val # None =>
                  /\ sw.val # None
                  /\ sw.val[1][2].write_type = "Put"
                  /\ sw.val[1][2].short_value = ret.val
            /\ ret.val = None =>
                  (sw.val = None \/ sw.val[1][2].write_type = "Delete")

\* C7 as stated: every operation that takes a key reports a key that
\* cannot be converted to raw bytes as an error result.
C7_KeyEncodingReported ==
    LET bad(k) == ~IsKey(k)
    IN /\ (call.op \in {"get", "seek_write", "get_write",
                        "get_txn_commit_record", "load_lock"} /\ bad(call.key))
            => ret = Err("KeyEncoding")
       /\ (call.op = "scan_locks" /\ call.start # None /\ bad(call.start[1]))
            => ret = Err("KeyEncoding")

====
